---- MODULE Spec2Model ----
(***************************************************************************)
(* Model of scripts/scrape-apple-hig.py: the resumable crawler of Apple's   *)
(* Human Interface Guidelines (URLTracker, CrawlStats, normalize_url,       *)
(* is_hig_url, url_to_filepath, load_visited_urls, save_visited_urls,       *)
(* fetch_with_retry, crawl_hig, main).                                      *)
(*                                                                         *)
(* A Python str is a sequence of tokens.  A token is one delimiter          *)
(* character (":", "/", "?", "#") or a run of non-delimiter characters      *)
(* ("https", "developer.apple.com", "design", ...), so the string           *)
(* operations of the code (find, split, startswith, rstrip, removeprefix)   *)
(* are computed on the sequence as the code computes them on characters.    *)
(***************************************************************************)
EXTENDS Integers, Sequences, FiniteSets, TLC

(***************************************************************************)
(* Bounds of the model (not program constants).                            *)
(***************************************************************************)
\* most runs of the script over the same output directory
MaxRuns == 2
\* largest max_retries a stand-alone call of fetch_with_retry is given
MaxRetriesArg == 4
\* most "/" in a row in the path of a URL given to a pure function
MaxSlashes == 2

(***************************************************************************)
(* Strings.                                                                *)
(***************************************************************************)
Delims == {":", "/", "?", "#"}

\* str.find(t): index of the first occurrence of token t, 0 when absent
\* (Python's -1; indices here are 1-based)
RECURSIVE FindFrom(_, _, _)
FindFrom(s, t, i) ==
    IF i > Len(s) THEN 0
    ELSE IF s[i] = t THEN i
    ELSE FindFrom(s, t, i + 1)

Find(s, t) == FindFrom(s, t, 1)

\* s[i:] of Python with a 1-based i
From(s, i) == SubSeq(s, i, Len(s))

\* s[:i] of Python: the first i tokens
Upto(s, i) == SubSeq(s, 1, i)

\* str.startswith
StartsWith(s, p) == Len(p) <= Len(s) /\ Upto(s, Len(p)) = p

\* str.removeprefix
RemovePrefix(s, p) == IF StartsWith(s, p) THEN From(s, Len(p) + 1) ELSE s

\* str.rstrip('/')
RECURSIVE RStripSlash(_)
RStripSlash(s) ==
    IF s # <<>> /\ s[Len(s)] = "/" THEN RStripSlash(Upto(s, Len(s) - 1)) ELSE s

\* str.lstrip('/')
RECURSIVE LStripSlash(_)
LStripSlash(s) ==
    IF s # <<>> /\ s[1] = "/" THEN LStripSlash(From(s, 2)) ELSE s

\* str.strip('/')
StripSlash(s) == LStripSlash(RStripSlash(s))

\* index of the first token of s at or after i that is in the set D,
\* Len(s)+1 when there is none
RECURSIVE FindAnyFrom(_, _, _)
FindAnyFrom(s, D, i) ==
    IF i > Len(s) THEN Len(s) + 1
    ELSE IF s[i] \in D THEN i
    ELSE FindAnyFrom(s, D, i + 1)

\* code-point order of the first characters of the tokens, used to sort
TokenRank(t) ==
    CASE t = "#" -> 1
      [] t = "/" -> 2
      [] t = ":" -> 3
      [] t = "?" -> 4
      [] t = "a" -> 5
      [] t = "b" -> 6
      [] t = "design" -> 7
      [] t = "developer.apple.com" -> 8
      [] t = "evil.example" -> 9
      [] t = "f" -> 10
      [] t = "http" -> 11
      [] t = "https" -> 12
      [] t = "human-interface-guidelines" -> 13
      [] t = "other" -> 14
      [] t = "q" -> 15
      [] OTHER -> 16

\* s < t in Python's str order
RECURSIVE StrLess(_, _)
StrLess(s, t) ==
    IF t = <<>> THEN FALSE
    ELSE IF s = <<>> THEN TRUE
    ELSE IF s[1] = t[1] THEN StrLess(Tail(s), Tail(t))
    ELSE TokenRank(s[1]) < TokenRank(t[1])

\* sorted(S, reverse=True)
RECURSIVE SortedDescending(_)
SortedDescending(S) ==
    IF S = {} THEN <<>>
    ELSE LET m == CHOOSE x \in S : \A y \in S : x = y \/ StrLess(y, x)
         IN  <<m>> \o SortedDescending(S \ {m})

\* sorted(S) for a set S of strings
RECURSIVE Sorted(_)
Sorted(S) ==
    IF S = {} THEN <<>>
    ELSE LET m == CHOOSE x \in S : \A y \in S : x = y \/ StrLess(x, y)
         IN  <<m>> \o Sorted(S \ {m})

\* set(seq)
Range(s) == {s[i] : i \in DOMAIN s}

\* Body applied to the value of e, which is computed once (a local variable)
Let(e, Body(_)) == CHOOSE r \in {Body(v) : v \in {e}} : TRUE

(***************************************************************************)
(* urllib.parse                                                            *)
(***************************************************************************)
\* urlsplit: "scheme:" is split off when a ":" follows one or more
\* characters that are all scheme characters
SplitScheme(url) ==
    LET i == Find(url, ":")
    IN  IF i > 1 /\ \A k \in 1..(i - 1) : url[k] \notin Delims
        THEN [scheme |-> Upto(url, i - 1), rest |-> From(url, i + 1)]
        ELSE [scheme |-> <<>>, rest |-> url]

\* urlsplit: after "//" the netloc runs up to the next "/", "?" or "#"
SplitNetloc(rest) ==
    IF Len(rest) >= 2 /\ rest[1] = "/" /\ rest[2] = "/"
    THEN LET d == FindAnyFrom(rest, {"/", "?", "#"}, 3)
         IN  [netloc |-> SubSeq(rest, 3, d - 1), rest |-> From(rest, d)]
    ELSE [netloc |-> <<>>, rest |-> rest]

\* s.split(t, 1), with an empty second part when t is not in s
SplitAt(s, t) ==
    LET i == Find(s, t)
    IN  IF i > 0 THEN [head |-> Upto(s, i - 1), tail |-> From(s, i + 1)]
        ELSE [head |-> s, tail |-> <<>>]

\* urlparse(url): scheme, netloc, path, query, fragment
urlparse(url) ==
    Let(SplitScheme(url), LAMBDA a :
    Let(SplitNetloc(a.rest), LAMBDA b :
    Let(SplitAt(b.rest, "#"), LAMBDA c :
    Let(SplitAt(c.head, "?"), LAMBDA d :
        [scheme |-> a.scheme, netloc |-> b.netloc, path |-> d.head,
         query |-> d.tail, fragment |-> c.tail]))))

\* urlunparse for an http(s) URL (a scheme that uses a netloc)
urlunparse(p) ==
    p.scheme \o <<":", "/", "/">> \o p.netloc
      \o (IF p.path # <<>> /\ p.path[1] # "/" THEN <<"/">> ELSE <<>>)
      \o p.path
      \o (IF p.query # <<>> THEN <<"?">> \o p.query ELSE <<>>)
      \o (IF p.fragment # <<>> THEN <<"#">> \o p.fragment ELSE <<>>)

\* index of the last "/" of s, 0 when there is none
RECURSIVE RFindSlash(_)
RFindSlash(s) ==
    IF s = <<>> THEN 0
    ELSE IF s[Len(s)] = "/" THEN Len(s)
    ELSE RFindSlash(Upto(s, Len(s) - 1))

\* removes every "/" that follows a "/" (urljoin's filter of empty segments)
RECURSIVE CollapseSlashes(_)
CollapseSlashes(s) ==
    IF Len(s) < 2 THEN s
    ELSE IF s[1] = "/" /\ s[2] = "/" THEN CollapseSlashes(Tail(s))
    ELSE <<s[1]>> \o CollapseSlashes(Tail(s))

\* urljoin of the parsed base b and the parsed reference u, with the scheme
\* of the base when the reference has none
JoinParsed(b, u, url) ==
    IF u.scheme # b.scheme \/ u.scheme \notin {<<"http">>, <<"https">>}
    THEN url
    ELSE IF u.netloc # <<>> THEN urlunparse(u)
    ELSE IF u.path = <<>>
         THEN urlunparse([u EXCEPT !.netloc = b.netloc, !.path = b.path,
                                   !.query = IF u.query = <<>> THEN b.query
                                             ELSE u.query])
    ELSE IF u.path[1] = "/" THEN urlunparse([u EXCEPT !.netloc = b.netloc])
    ELSE urlunparse([u EXCEPT
             !.netloc = b.netloc,
             !.path = CollapseSlashes(
                          Upto(b.path, RFindSlash(b.path)) \o u.path)])

\* urljoin(base, url); the model's paths have no "." or ".." segments, so
\* the dot-segment loop of urljoin changes nothing
urljoin(base, url) ==
    IF base = <<>> THEN url
    ELSE IF url = <<>> THEN base
    ELSE Let(urlparse(base), LAMBDA b :
         Let(urlparse(url), LAMBDA u :
             JoinParsed(b,
                        IF u.scheme = <<>> THEN [u EXCEPT !.scheme = b.scheme]
                        ELSE u,
                        url)))

(***************************************************************************)
(* Program constants.                                                      *)
(***************************************************************************)
\* URLTracker.base_url
base_url == <<"https", ":", "/", "/", "developer.apple.com">>

\* URLTracker.hig_path_prefix
hig_path_prefix == <<"/", "design", "/", "human-interface-guidelines">>

\* default of fetch_with_retry's max_retries
DefaultMaxRetries == 3

\* factor of the backoff after a rate-limited attempt: 10 * (2 ** attempt)
RateLimitBase == 10

\* 2 * n, in place of 2 ** n
TimesTwo(n) == 2 * n

\* 2 ** n
RECURSIVE Pow2(_)
Pow2(n) == IF n = 0 THEN 1 ELSE 2 * Pow2(n - 1)

(***************************************************************************)
(* The pure functions of the crawler.                                      *)
(***************************************************************************)
\* url.startswith('http')
StartsWithHttp(url) == url # <<>> /\ url[1] \in {"http", "https"}

\* normalize_url without the exception for the root path
normalize_urlStripsRoot(url) ==
    Let(urlparse(url), LAMBDA parsed :
        parsed.scheme \o <<":", "/", "/">> \o parsed.netloc
          \o RStripSlash(parsed.path))

normalize_url(url) ==
    Let(urlparse(url), LAMBDA parsed :
        parsed.scheme \o <<":", "/", "/">> \o parsed.netloc
          \o (IF parsed.path # <<"/">> THEN RStripSlash(parsed.path)
              ELSE parsed.path))

is_hig_url(url, base, hig_prefix) ==
    Let(urlparse(IF ~StartsWithHttp(url) THEN urljoin(base, url) ELSE url),
        LAMBDA parsed :
            IF parsed.netloc # <<"developer.apple.com">> THEN FALSE
            ELSE IF ~StartsWith(parsed.path, hig_prefix) THEN FALSE
            ELSE TRUE)

\* the components of a relative pathlib.Path: the runs of tokens between "/"
RECURSIVE PathParts(_)
PathParts(s) ==
    IF s = <<>> THEN <<>>
    ELSE IF s[1] = "/" THEN PathParts(Tail(s))
    ELSE LET d == FindAnyFrom(s, {"/"}, 1)
         IN  <<Upto(s, d - 1)>> \o PathParts(From(s, d))

\* url_to_filepath without the removeprefix
url_to_filepathKeepsPrefix(url) ==
    Let(urlparse(url).path,
        LAMBDA path :
            IF path = <<>> \/ path = <<"/">> THEN << <<"index.html">> >>
            ELSE PathParts(StripSlash(path)) \o << <<"index.html">> >>)

\* url_to_filepath(url, base_dir), as the components below base_dir
url_to_filepath(url) ==
    Let(RemovePrefix(urlparse(url).path,
                     <<"/", "design", "/", "human-interface-guidelines">>),
        LAMBDA path :
            IF path = <<>> \/ path = <<"/">> THEN << <<"index.html">> >>
            ELSE PathParts(StripSlash(path)) \o << <<"index.html">> >>)

\* the state of <output_dir>/.visited.json:
\*   absent      the file does not exist
\*   array       a JSON array of strings, items in file order
\*   corrupt     not valid JSON (json.JSONDecodeError)
\*   unreadable  read_text raises OSError
\*   scalar      valid JSON that is not iterable (a number, true, null)
ManifestKinds == {"absent", "array", "corrupt", "unreadable", "scalar"}

Manifest(kind, items) == [kind |-> kind, items |-> items]

\* load_visited_urls: the set returned, for every manifest the function
\* returns on
load_visited_urls(m) ==
    IF m.kind = "array" THEN Range(m.items) ELSE {}

\* load_visited_urls raises (set() of a non-iterable: TypeError is not caught)
load_raises(m) == m.kind = "scalar"

\* the text save_visited_urls writes: json.dumps(sorted(visited), indent=2)
save_text(vis) == Manifest("array", Sorted(vis))

\* the page.goto of a URL without scheme and host cannot succeed
Navigable(url) ==
    Let(urlparse(url), LAMBDA parsed :
        parsed.scheme \in {<<"http">>, <<"https">>} /\ parsed.netloc # <<>>)

(***************************************************************************)
(* The environment: what a rendered page may link to, how an attempt ends. *)
(***************************************************************************)
SeedUrl == base_url \o hig_path_prefix

\* values of --start-url: the default, the same with a trailing slash, a
\* query and a fragment, the same path on another host, and the path alone
\* (a relative reference, which is_hig_url resolves against base_url)
StartUrls ==
    { SeedUrl,
      SeedUrl \o <<"/", "?", "q", "#", "f">>,
      <<"https", ":", "/", "/", "evil.example">> \o hig_path_prefix,
      hig_path_prefix }

\* href attributes of the pages: a path on the same host, an absolute URL
\* with a trailing slash and a fragment, a fragment of the page itself, a
\* relative path with a query, the same path on another host
hrefA == hig_path_prefix \o <<"/", "a">>

hrefASlash == base_url \o hig_path_prefix \o <<"/", "a", "/", "#", "f">>

hrefSelf == <<"#", "f">>

hrefRel == <<"b", "?", "q">>

hrefOther == <<"https", ":", "/", "/", "evil.example">> \o hig_path_prefix
                 \o <<"/", "a">>

\* the rendered pages the site may answer a page load with, each as the
\* hrefs of soup.find_all('a', href=True) in document order
Pages ==
    { <<>>,
      <<hrefA, hrefOther>>,
      <<hrefRel, hrefA>>,
      <<hrefSelf, hrefA, hrefA>>,
      <<hrefASlash, hrefRel>> }

\* an exception of page.goto / page.content, by the substrings of its message
\* the classification of fetch_with_retry looks for
ErrorMessages == SUBSET {"429", "rate limit", "timeout"}

\* "429" in str(e) or "rate limit" in error_msg
IsRateLimited(e) == "429" \in e \/ "rate limit" \in e

\* "timeout" in error_msg
IsTimeout(e) == "timeout" \in e

(***************************************************************************)
(* State.                                                                  *)
(***************************************************************************)
VARIABLES
    run,                \* number of the current run of the script
    pc,                 \* where the run is: see the actions
    start_url,          \* --start-url
    resume,             \* not --no-resume
    rate_limit_delay,   \* --delay
    visited,            \* tracker.visited
    queue,              \* tracker.queue
    stats,              \* CrawlStats: total_pages, successful, failed
    url,                \* the URL popped by the current iteration
    max_retries,        \* fetch_with_retry's max_retries
    attempt,            \* fetch_with_retry's loop variable
    html,               \* what fetch_with_retry returned
    files,              \* the page files that exist below output_dir
    manifest,           \* the state of output_dir/.visited.json
    loaded,             \* history: the set load_visited_urls returned
    fetchLog,           \* history: arguments of fetch_with_retry, this run
    trace,              \* history: page loads and sleeps of the current call
    saves,              \* history: executions of save_visited_urls, this run
    sinceFetch,         \* history: "fetch" / "delay", the later of the two
    failedNow,          \* history: URLs that took a [FAIL] path, this run
    failedBefore,       \* history: URLs that took a [FAIL] path, earlier runs
    ioError,            \* history: save_visited_urls has caught an OSError
    exitPath,           \* history: how the while loop was left
    call,               \* a stand-alone call of a pure function: its arguments
    ret                 \* what the stand-alone call returned

vars == <<run, pc, start_url, resume, rate_limit_delay, visited, queue, stats,
          url, max_retries, attempt, html, files, manifest, loaded, fetchLog,
          trace, saves, sinceFetch, failedNow, failedBefore, ioError, exitPath,
          call, ret>>

\* the variables of one call of fetch_with_retry
fetchVars == <<pc, attempt, html, trace>>

\* everything but the variables of one call of fetch_with_retry
crawlVars == <<run, start_url, resume, rate_limit_delay, visited, queue,
               stats, url, max_retries, files, manifest, loaded, fetchLog,
               saves, sinceFetch, failedNow, failedBefore, ioError, exitPath,
               call, ret>>

\* fetch_with_retry's "return None"
None == [ok |-> FALSE, links |-> <<>>]

\* fetch_with_retry's "return await page.content()": the hrefs of the page
Content(links) == [ok |-> TRUE, links |-> links]

NewStats == [total_pages |-> 0, successful |-> 0, failed |-> 0]

\* no stand-alone call of a pure function is made
NoCall == [fn |-> "none"]

\* the page files and the manifest a run may find in the output directory:
\* nothing; the page of /a and a manifest that only lists /b; a manifest that
\* is valid JSON but no array
InitialDisks ==
    { [files |-> {}, manifest |-> Manifest("absent", <<>>)],
      [files |-> {url_to_filepath(SeedUrl \o <<"/", "a">>)},
       manifest |-> Manifest("array", <<SeedUrl \o <<"/", "b">> >>)],
      [files |-> {}, manifest |-> Manifest("scalar", <<>>)] }

\* everything but the output directory, before main runs
InitProcess ==
    /\ run = 1
    /\ pc = "main"
    /\ resume = TRUE
    /\ rate_limit_delay = 1
    /\ visited = {}
    /\ queue = <<>>
    /\ stats = NewStats
    /\ url = <<>>
    /\ max_retries = DefaultMaxRetries
    /\ attempt = 0
    /\ html = None
    /\ loaded = {}
    /\ fetchLog = <<>>
    /\ trace = <<>>
    /\ saves = 0
    /\ sinceFetch = "none"
    /\ failedNow = {}
    /\ failedBefore = {}
    /\ ioError = FALSE
    /\ exitPath = "none"
    /\ call = NoCall
    /\ ret = <<>>

\* one run of the script, over any of the output directories
Init ==
    /\ InitProcess
    /\ start_url \in StartUrls
    /\ \E d \in InitialDisks : files = d.files /\ manifest = d.manifest

\* the first of several runs of the script, over a new output directory
InitResume ==
    /\ InitProcess
    /\ start_url = SeedUrl \o <<"/", "?", "q", "#", "f">>
    /\ files = {}
    /\ manifest = Manifest("absent", <<>>)

\* one call fetch_with_retry(page, url, max_retries), at its first await
InitFetch ==
    /\ max_retries \in 0..MaxRetriesArg
    /\ run = 1
    /\ pc = IF 0 < max_retries THEN "goto" ELSE "fetched"
    /\ start_url = SeedUrl
    /\ resume = TRUE
    /\ rate_limit_delay = 1
    /\ visited = {}
    /\ queue = <<>>
    /\ stats = NewStats
    /\ url = SeedUrl
    /\ attempt = 0
    /\ html = None
    /\ files = {}
    /\ manifest = Manifest("absent", <<>>)
    /\ loaded = {}
    /\ fetchLog = <<SeedUrl>>
    /\ trace = <<>>
    /\ saves = 0
    /\ sinceFetch = "fetch"
    /\ failedNow = {}
    /\ failedBefore = {}
    /\ ioError = FALSE
    /\ exitPath = "none"
    /\ call = NoCall
    /\ ret = <<>>

(***************************************************************************)
(* main and the start of crawl_hig.                                        *)
(***************************************************************************)
\* values of --delay
Delays == {0, 1}

\* main: the start URL is not a HIG URL, sys.exit(1)
MainReject ==
    /\ pc = "main"
    /\ ~is_hig_url(start_url, base_url, hig_path_prefix)
    /\ pc' = "exit"
    /\ UNCHANGED <<run, start_url, resume, rate_limit_delay, visited, queue,
                   stats, url, max_retries, attempt, html, files, manifest,
                   loaded, fetchLog, trace, saves, sinceFetch, failedNow,
                   failedBefore, ioError, exitPath, call, ret>>

\* CrawlStart when crawl_hig is called without main's test of the start URL
CrawlStartUnchecked(r, d) ==
    /\ pc = "main"
    /\ ~(r /\ load_raises(manifest))
    /\ resume' = r
    /\ rate_limit_delay' = d
    /\ visited' = IF r THEN load_visited_urls(manifest) ELSE {}
    /\ loaded' = IF r THEN load_visited_urls(manifest) ELSE {}
    /\ queue' = <<start_url>>
    /\ stats' = NewStats
    /\ pc' = "launch"
    /\ UNCHANGED <<run, start_url, url, max_retries, attempt, html, files,
                   manifest, fetchLog, trace, saves, sinceFetch, failedNow,
                   failedBefore, ioError, exitPath, call, ret>>

\* main calls crawl_hig, which builds the tracker and loads the resume state,
\* up to its first await
CrawlStart(r, d) ==
    /\ pc = "main"
    /\ is_hig_url(start_url, base_url, hig_path_prefix)
    /\ ~(r /\ load_raises(manifest))
    /\ resume' = r
    /\ rate_limit_delay' = d
    /\ visited' = IF r THEN load_visited_urls(manifest) ELSE {}
    /\ loaded' = IF r THEN load_visited_urls(manifest) ELSE {}
    /\ queue' = <<start_url>>
    /\ stats' = NewStats
    /\ pc' = "launch"
    /\ UNCHANGED <<run, start_url, url, max_retries, attempt, html, files,
                   manifest, fetchLog, trace, saves, sinceFetch, failedNow,
                   failedBefore, ioError, exitPath, call, ret>>

\* the same, when load_visited_urls raises an exception it does not catch
CrawlStartLoadRaises(d) ==
    /\ pc = "main"
    /\ is_hig_url(start_url, base_url, hig_path_prefix)
    /\ load_raises(manifest)
    /\ resume' = TRUE
    /\ rate_limit_delay' = d
    /\ queue' = <<start_url>>
    /\ pc' = "done"
    /\ exitPath' = "load_error"
    /\ UNCHANGED <<run, start_url, visited, stats, url, max_retries, attempt,
                   html, files, manifest, loaded, fetchLog, trace, saves,
                   sinceFetch, failedNow, failedBefore, ioError, call, ret>>

\* chromium.launch, browser.new_context and context.new_page succeed
SessionAcquired ==
    /\ pc = "launch"
    /\ pc' = "loop"
    /\ UNCHANGED <<run, start_url, resume, rate_limit_delay, visited, queue,
                   stats, url, max_retries, attempt, html, files, manifest,
                   loaded, fetchLog, trace, saves, sinceFetch, failedNow,
                   failedBefore, ioError, exitPath, call, ret>>

\* one of them raises (or the run is cancelled): the try block is not entered
SessionFails ==
    /\ pc = "launch"
    /\ pc' = "done"
    /\ exitPath' = "launch_error"
    /\ UNCHANGED <<run, start_url, resume, rate_limit_delay, visited, queue,
                   stats, url, max_retries, attempt, html, files, manifest,
                   loaded, fetchLog, trace, saves, sinceFetch, failedNow,
                   failedBefore, ioError, call, ret>>

(***************************************************************************)
(* The while loop of crawl_hig, up to the call of fetch_with_retry.        *)
(***************************************************************************)
\* while tracker.queue: is false
LoopExit ==
    /\ pc = "loop"
    /\ queue = <<>>
    /\ pc' = "close_context"
    /\ exitPath' = "normal"
    /\ UNCHANGED <<run, start_url, resume, rate_limit_delay, visited, queue,
                   stats, url, max_retries, attempt, html, files, manifest,
                   loaded, fetchLog, trace, saves, sinceFetch, failedNow,
                   failedBefore, ioError, call, ret>>

\* popleft; the normalized URL is in tracker.visited: continue
SkipVisited ==
    /\ pc = "loop"
    /\ queue # <<>>
    /\ normalize_url(Head(queue)) \in visited
    /\ url' = Head(queue)
    /\ queue' = Tail(queue)
    /\ UNCHANGED <<run, pc, start_url, resume, rate_limit_delay, visited,
                   stats, max_retries, attempt, html, files, manifest, loaded,
                   fetchLog, trace, saves, sinceFetch, failedNow,
                   failedBefore, ioError, exitPath, call, ret>>

\* SkipExists without tracker.visited.add(normalized)
SkipExistsNoMark ==
    /\ pc = "loop"
    /\ queue # <<>>
    /\ normalize_url(Head(queue)) \notin visited
    /\ resume /\ url_to_filepath(normalize_url(Head(queue))) \in files
    /\ url' = Head(queue)
    /\ queue' = Tail(queue)
    /\ UNCHANGED <<run, pc, start_url, resume, rate_limit_delay, visited,
                   stats, max_retries, attempt, html, files, manifest, loaded,
                   fetchLog, trace, saves, sinceFetch, failedNow,
                   failedBefore, ioError, exitPath, call, ret>>

\* SkipExists that counts the skipped URL as successful
SkipExistsCounted ==
    /\ pc = "loop"
    /\ queue # <<>>
    /\ normalize_url(Head(queue)) \notin visited
    /\ resume /\ url_to_filepath(normalize_url(Head(queue))) \in files
    /\ url' = Head(queue)
    /\ queue' = Tail(queue)
    /\ visited' = visited \cup {normalize_url(Head(queue))}
    /\ stats' = [stats EXCEPT !.successful = @ + 1]
    /\ UNCHANGED <<run, pc, start_url, resume, rate_limit_delay, max_retries,
                   attempt, html, files, manifest, loaded, fetchLog, trace,
                   saves, sinceFetch, failedNow, failedBefore, ioError,
                   exitPath, call, ret>>

\* popleft; resume and filepath.exists(): mark visited, continue
SkipExists ==
    /\ pc = "loop"
    /\ queue # <<>>
    /\ normalize_url(Head(queue)) \notin visited
    /\ resume /\ url_to_filepath(normalize_url(Head(queue))) \in files
    /\ url' = Head(queue)
    /\ queue' = Tail(queue)
    /\ visited' = visited \cup {normalize_url(Head(queue))}
    /\ UNCHANGED <<run, pc, start_url, resume, rate_limit_delay, stats,
                   max_retries, attempt, html, files, manifest, loaded,
                   fetchLog, trace, saves, sinceFetch, failedNow,
                   failedBefore, ioError, exitPath, call, ret>>

\* CallFetch with the raw URL, not its normalized form, looked up in
\* tracker.visited
CallFetchRawKey ==
    /\ pc = "loop"
    /\ queue # <<>>
    /\ Head(queue) \notin visited
    /\ ~(resume /\ url_to_filepath(normalize_url(Head(queue))) \in files)
    /\ url' = Head(queue)
    /\ queue' = Tail(queue)
    /\ max_retries' = DefaultMaxRetries
    /\ attempt' = 0
    /\ trace' = <<>>
    /\ html' = None
    /\ pc' = IF 0 < DefaultMaxRetries THEN "goto" ELSE "fetched"
    /\ fetchLog' = Append(fetchLog, Head(queue))
    /\ sinceFetch' = "fetch"
    /\ UNCHANGED <<run, start_url, resume, rate_limit_delay, visited, stats,
                   files, manifest, loaded, saves, failedNow, failedBefore,
                   ioError, exitPath, call, ret>>

\* popleft; html = await fetch_with_retry(page, url): the call, up to the
\* first page.goto
CallFetch ==
    /\ pc = "loop"
    /\ queue # <<>>
    /\ normalize_url(Head(queue)) \notin visited
    /\ ~(resume /\ url_to_filepath(normalize_url(Head(queue))) \in files)
    /\ url' = Head(queue)
    /\ queue' = Tail(queue)
    /\ max_retries' = DefaultMaxRetries
    /\ attempt' = 0
    /\ trace' = <<>>
    /\ html' = None
    /\ pc' = IF 0 < DefaultMaxRetries THEN "goto" ELSE "fetched"
    /\ fetchLog' = Append(fetchLog, Head(queue))
    /\ sinceFetch' = "fetch"
    /\ UNCHANGED <<run, start_url, resume, rate_limit_delay, visited, stats,
                   files, manifest, loaded, saves, failedNow, failedBefore,
                   ioError, exitPath, call, ret>>

(***************************************************************************)
(* fetch_with_retry.                                                       *)
(***************************************************************************)
PageLoad(result) == [op |-> "goto", result |-> result, delay |-> 0]

Sleep(delay) == [op |-> "sleep", result |-> "", delay |-> delay]

\* page.goto, wait_for_timeout and page.content succeed: return the content
GotoOk(links) ==
    /\ pc = "goto"
    /\ Navigable(url)
    /\ html' = Content(links)
    /\ trace' = Append(trace, PageLoad("ok"))
    /\ pc' = "fetched"
    /\ UNCHANGED attempt
    /\ UNCHANGED crawlVars

\* GotoRateLimited with the last-attempt test of the timeout branch: the
\* last rate-limited attempt returns None without a sleep
GotoRateLimitedGivesUp(e) ==
    /\ pc = "goto"
    /\ IsRateLimited(e)
    /\ IF attempt = max_retries - 1
       THEN /\ trace' = Append(trace, PageLoad("rate_limit"))
            /\ html' = None
            /\ pc' = "fetched"
       ELSE /\ trace' = trace \o <<PageLoad("rate_limit"),
                                   Sleep(RateLimitBase * Pow2(attempt))>>
            /\ pc' = "backoff"
            /\ UNCHANGED html
    /\ UNCHANGED attempt
    /\ UNCHANGED crawlVars

\* the attempt raises e, classified as rate limiting: sleep, then continue
GotoRateLimited(e) ==
    /\ pc = "goto"
    /\ IsRateLimited(e)
    /\ trace' = trace \o <<PageLoad("rate_limit"),
                           Sleep(RateLimitBase * Pow2(attempt))>>
    /\ pc' = "backoff"
    /\ UNCHANGED <<attempt, html>>
    /\ UNCHANGED crawlVars

\* GotoTimeout without the test for the last attempt: it always sleeps
GotoTimeoutNoCap(e) ==
    /\ pc = "goto"
    /\ ~IsRateLimited(e)
    /\ IsTimeout(e)
    /\ trace' = trace \o <<PageLoad("timeout"), Sleep(Pow2(attempt))>>
    /\ pc' = "backoff"
    /\ UNCHANGED <<attempt, html>>
    /\ UNCHANGED crawlVars

\* the attempt raises e, classified as a timeout: give up on the last
\* attempt, otherwise sleep, then continue
GotoTimeout(e) ==
    /\ pc = "goto"
    /\ ~IsRateLimited(e)
    /\ IsTimeout(e)
    /\ IF attempt = max_retries - 1
       THEN /\ trace' = Append(trace, PageLoad("timeout"))
            /\ html' = None
            /\ pc' = "fetched"
       ELSE /\ trace' = trace \o <<PageLoad("timeout"), Sleep(Pow2(attempt))>>
            /\ pc' = "backoff"
            /\ UNCHANGED html
    /\ UNCHANGED attempt
    /\ UNCHANGED crawlVars

\* GotoError that backs off and retries, as the timeout branch does
GotoErrorRetried(e) ==
    /\ pc = "goto"
    /\ ~IsRateLimited(e)
    /\ ~IsTimeout(e)
    /\ IF attempt = max_retries - 1
       THEN /\ trace' = Append(trace, PageLoad("error"))
            /\ html' = None
            /\ pc' = "fetched"
       ELSE /\ trace' = trace \o <<PageLoad("error"), Sleep(Pow2(attempt))>>
            /\ pc' = "backoff"
            /\ UNCHANGED html
    /\ UNCHANGED attempt
    /\ UNCHANGED crawlVars

\* the attempt raises any other e: return None
GotoError(e) ==
    /\ pc = "goto"
    /\ ~IsRateLimited(e)
    /\ ~IsTimeout(e)
    /\ trace' = Append(trace, PageLoad("error"))
    /\ html' = None
    /\ pc' = "fetched"
    /\ UNCHANGED attempt
    /\ UNCHANGED crawlVars

\* BackoffDone of a loop that tries again without counting the attempt
BackoffDoneSameAttempt ==
    /\ pc = "backoff"
    /\ pc' = "goto"
    /\ html' = None
    /\ UNCHANGED <<attempt, trace>>
    /\ UNCHANGED crawlVars

\* asyncio.sleep(delay) returns; continue: the next attempt of the for loop,
\* or the return None that follows the loop
BackoffDone ==
    /\ pc = "backoff"
    /\ attempt' = attempt + 1
    /\ pc' = IF attempt + 1 < max_retries THEN "goto" ELSE "fetched"
    /\ html' = None
    /\ UNCHANGED trace
    /\ UNCHANGED crawlVars

(***************************************************************************)
(* The while loop of crawl_hig, after fetch_with_retry returned.           *)
(***************************************************************************)
\* PushLinks with queue.appendleft in place of queue.append
RECURSIVE PushLinksFront(_, _, _, _)
PushLinksFront(q, links, page_url, vis) ==
    IF links = <<>> THEN q
    ELSE Let(urljoin(page_url, Head(links)), LAMBDA absolute_url :
         Let(normalize_url(absolute_url), LAMBDA normalized_link :
             PushLinksFront(IF /\ is_hig_url(absolute_url, base_url,
                                             hig_path_prefix)
                               /\ normalized_link \notin vis
                            THEN <<normalized_link>> \o q
                            ELSE q,
                            Tail(links), page_url, vis)))

\* PushLinks without the is_hig_url test
RECURSIVE PushLinksNoScope(_, _, _, _)
PushLinksNoScope(q, links, page_url, vis) ==
    IF links = <<>> THEN q
    ELSE Let(normalize_url(urljoin(page_url, Head(links))),
             LAMBDA normalized_link :
                 PushLinksNoScope(IF normalized_link \notin vis
                                  THEN Append(q, normalized_link)
                                  ELSE q,
                                  Tail(links), page_url, vis))

\* the for loop over soup.find_all('a', href=True): the queue after it
RECURSIVE PushLinks(_, _, _, _)
PushLinks(q, links, page_url, vis) ==
    IF links = <<>> THEN q
    ELSE Let(urljoin(page_url, Head(links)), LAMBDA absolute_url :
         Let(normalize_url(absolute_url), LAMBDA normalized_link :
             PushLinks(IF /\ is_hig_url(absolute_url, base_url,
                                        hig_path_prefix)
                          /\ normalized_link \notin vis
                       THEN Append(q, normalized_link)
                       ELSE q,
                       Tail(links), page_url, vis)))

\* FetchFailed with tracker.visited = {normalized} in place of the add
FetchFailedForgets ==
    /\ pc = "fetched"
    /\ ~html.ok
    /\ stats' = [stats EXCEPT !.failed = @ + 1]
    /\ visited' = {normalize_url(url)}
    /\ failedNow' = failedNow \cup {normalize_url(url)}
    /\ trace' = <<>>
    /\ pc' = "loop"
    /\ UNCHANGED <<run, start_url, resume, rate_limit_delay, queue, url,
                   max_retries, attempt, html, files, manifest, loaded,
                   fetchLog, saves, sinceFetch, failedBefore, ioError,
                   exitPath, call, ret>>

\* html is None: count the failure, mark visited, continue
FetchFailed ==
    /\ pc = "fetched"
    /\ ~html.ok
    /\ stats' = [stats EXCEPT !.failed = @ + 1]
    /\ visited' = visited \cup {normalize_url(url)}
    /\ failedNow' = failedNow \cup {normalize_url(url)}
    /\ trace' = <<>>
    /\ pc' = "loop"
    /\ UNCHANGED <<run, start_url, resume, rate_limit_delay, queue, url,
                   max_retries, attempt, html, files, manifest, loaded,
                   fetchLog, saves, sinceFetch, failedBefore, ioError,
                   exitPath, call, ret>>

\* WriteFailed without the except OSError clause: the error leaves the loop
WriteFailedAborts(created) ==
    /\ pc = "fetched"
    /\ html.ok
    /\ files' = IF created
                THEN files \cup {url_to_filepath(normalize_url(url))}
                ELSE files
    /\ trace' = <<>>
    /\ html' = None
    /\ pc' = "close_context"
    /\ exitPath' = "error"
    /\ UNCHANGED <<run, start_url, resume, rate_limit_delay, visited, queue,
                   stats, url, max_retries, attempt, manifest, loaded,
                   fetchLog, saves, sinceFetch, failedNow, failedBefore,
                   ioError, call, ret>>

\* WriteFailed without stats.failed += 1
WriteFailedNoCount(created) ==
    /\ pc = "fetched"
    /\ html.ok
    /\ files' = IF created
                THEN files \cup {url_to_filepath(normalize_url(url))}
                ELSE files
    /\ visited' = visited \cup {normalize_url(url)}
    /\ failedNow' = failedNow \cup {normalize_url(url)}
    /\ trace' = <<>>
    /\ html' = None
    /\ pc' = "loop"
    /\ UNCHANGED <<run, start_url, resume, rate_limit_delay, queue, stats,
                   url, max_retries, attempt, manifest, loaded, fetchLog,
                   saves, sinceFetch, failedBefore, ioError, exitPath, call,
                   ret>>

\* mkdir or write_text raises OSError: count the failure, mark visited,
\* continue; write_text may have created the file before it failed
WriteFailed(created) ==
    /\ pc = "fetched"
    /\ html.ok
    /\ files' = IF created
                THEN files \cup {url_to_filepath(normalize_url(url))}
                ELSE files
    /\ stats' = [stats EXCEPT !.failed = @ + 1]
    /\ visited' = visited \cup {normalize_url(url)}
    /\ failedNow' = failedNow \cup {normalize_url(url)}
    /\ trace' = <<>>
    /\ html' = None
    /\ pc' = "loop"
    /\ UNCHANGED <<run, start_url, resume, rate_limit_delay, queue, url,
                   max_retries, attempt, manifest, loaded, fetchLog, saves,
                   sinceFetch, failedBefore, ioError, exitPath, call, ret>>

\* PageSaved without tracker.visited.add(normalized)
PageSavedNoMark ==
    /\ pc = "fetched"
    /\ html.ok
    /\ files' = files \cup {url_to_filepath(normalize_url(url))}
    /\ queue' = PushLinks(queue, html.links, url, visited)
    /\ stats' = [stats EXCEPT
                   !.successful = @ + 1,
                   !.total_pages =
                       Cardinality(visited)
                         + Len(PushLinks(queue, html.links, url, visited))]
    /\ trace' = <<>>
    /\ html' = None
    /\ pc' = IF rate_limit_delay > 0 THEN "rate_sleep" ELSE "loop"
    /\ UNCHANGED <<run, start_url, resume, rate_limit_delay, visited, url,
                   max_retries, attempt, manifest, loaded, fetchLog, saves,
                   sinceFetch, failedNow, failedBefore, ioError, exitPath,
                   call, ret>>

\* the file is written, the links are pushed, the URL is marked visited and
\* counted; then the rate-limit sleep, when there is one
PageSaved ==
    /\ pc = "fetched"
    /\ html.ok
    /\ files' = files \cup {url_to_filepath(normalize_url(url))}
    /\ queue' = PushLinks(queue, html.links, url, visited)
    /\ visited' = visited \cup {normalize_url(url)}
    /\ stats' = [stats EXCEPT
                   !.successful = @ + 1,
                   !.total_pages =
                       Cardinality(visited \cup {normalize_url(url)})
                         + Len(PushLinks(queue, html.links, url, visited))]
    /\ trace' = <<>>
    /\ html' = None
    /\ pc' = IF rate_limit_delay > 0 THEN "rate_sleep" ELSE "loop"
    /\ UNCHANGED <<run, start_url, resume, rate_limit_delay, url, max_retries,
                   attempt, manifest, loaded, fetchLog, saves, sinceFetch,
                   failedNow, failedBefore, ioError, exitPath, call, ret>>

\* the file is written, then a statement of the iteration raises an exception
\* that nothing in the loop catches (BeautifulSoup, print): the finally block
IterationRaises ==
    /\ pc = "fetched"
    /\ html.ok
    /\ files' = files \cup {url_to_filepath(normalize_url(url))}
    /\ trace' = <<>>
    /\ html' = None
    /\ pc' = "close_context"
    /\ exitPath' = "error"
    /\ UNCHANGED <<run, start_url, resume, rate_limit_delay, visited, queue,
                   stats, url, max_retries, attempt, manifest, loaded,
                   fetchLog, saves, sinceFetch, failedNow, failedBefore,
                   ioError, call, ret>>

\* asyncio.sleep(rate_limit_delay) returns
RateSleepDone ==
    /\ pc = "rate_sleep"
    /\ pc' = "loop"
    /\ sinceFetch' = "delay"
    /\ UNCHANGED <<run, start_url, resume, rate_limit_delay, visited, queue,
                   stats, url, max_retries, attempt, html, files, manifest,
                   loaded, fetchLog, trace, saves, failedNow, failedBefore,
                   ioError, exitPath, call, ret>>

\* the task is cancelled (asyncio.run on an interrupt): CancelledError is
\* raised at the await the loop is suspended in, and no except clause of
\* fetch_with_retry catches it
Cancelled ==
    /\ pc \in {"goto", "backoff", "rate_sleep"}
    /\ pc' = "close_context"
    /\ exitPath' = "cancel"
    /\ trace' = <<>>
    /\ html' = None
    /\ UNCHANGED <<run, start_url, resume, rate_limit_delay, visited, queue,
                   stats, url, max_retries, attempt, files, manifest, loaded,
                   fetchLog, saves, sinceFetch, failedNow, failedBefore,
                   ioError, call, ret>>

(***************************************************************************)
(* The finally block of crawl_hig.                                         *)
(***************************************************************************)
\* await context.close() returns
CloseContextOk ==
    /\ pc = "close_context"
    /\ pc' = "close_browser"
    /\ UNCHANGED <<run, start_url, resume, rate_limit_delay, visited, queue,
                   stats, url, max_retries, attempt, html, files, manifest,
                   loaded, fetchLog, trace, saves, sinceFetch, failedNow,
                   failedBefore, ioError, exitPath, call, ret>>

\* await context.close() raises: the rest of the finally block is not run
CloseContextRaises ==
    /\ pc = "close_context"
    /\ pc' = "done"
    /\ UNCHANGED <<run, start_url, resume, rate_limit_delay, visited, queue,
                   stats, url, max_retries, attempt, html, files, manifest,
                   loaded, fetchLog, trace, saves, sinceFetch, failedNow,
                   failedBefore, ioError, exitPath, call, ret>>

\* await browser.close() raises: save_visited_urls is not run
CloseBrowserRaises ==
    /\ pc = "close_browser"
    /\ pc' = "done"
    /\ UNCHANGED <<run, start_url, resume, rate_limit_delay, visited, queue,
                   stats, url, max_retries, attempt, html, files, manifest,
                   loaded, fetchLog, trace, saves, sinceFetch, failedNow,
                   failedBefore, ioError, exitPath, call, ret>>

\* await browser.close() returns; save_visited_urls writes the manifest
CloseBrowserAndSave ==
    /\ pc = "close_browser"
    /\ manifest' = save_text(visited)
    /\ saves' = saves + 1
    /\ pc' = "done"
    /\ UNCHANGED <<run, start_url, resume, rate_limit_delay, visited, queue,
                   stats, url, max_retries, attempt, html, files, loaded,
                   fetchLog, trace, sinceFetch, failedNow, failedBefore,
                   ioError, exitPath, call, ret>>

\* await browser.close() returns; write_text raises OSError in
\* save_visited_urls, which prints a warning: the file is as it was
\* (it could not be opened) or truncated (the write failed)
CloseBrowserAndSaveFails(truncated) ==
    /\ pc = "close_browser"
    /\ manifest' = IF truncated THEN Manifest("corrupt", <<>>) ELSE manifest
    /\ saves' = saves + 1
    /\ ioError' = TRUE
    /\ pc' = "done"
    /\ UNCHANGED <<run, start_url, resume, rate_limit_delay, visited, queue,
                   stats, url, max_retries, attempt, html, files, loaded,
                   fetchLog, trace, sinceFetch, failedNow, failedBefore,
                   exitPath, call, ret>>

\* the script is run again with the same start URL and output directory
NextRun ==
    /\ pc = "done"
    /\ run < MaxRuns
    /\ run' = run + 1
    /\ pc' = "main"
    /\ visited' = {}
    /\ queue' = <<>>
    /\ stats' = NewStats
    /\ url' = <<>>
    /\ attempt' = 0
    /\ loaded' = {}
    /\ fetchLog' = <<>>
    /\ saves' = 0
    /\ sinceFetch' = "none"
    /\ failedBefore' = failedBefore \cup failedNow
    /\ failedNow' = {}
    /\ exitPath' = "none"
    /\ resume' = TRUE
    /\ rate_limit_delay' = 1
    /\ UNCHANGED <<start_url, max_retries, html, files, manifest, trace,
                   ioError, call, ret>>

(***************************************************************************)
(* Stand-alone calls of the pure functions and of the manifest functions.  *)
(* A URL argument is written from its parts, so that what the function     *)
(* returns can be compared with the parts the caller wrote.                *)
(***************************************************************************)
\* "/" * n
RECURSIVE Slashes(_)
Slashes(n) == IF n = 0 THEN <<>> ELSE <<"/">> \o Slashes(n - 1)

\* "/".join(segs)
RECURSIVE JoinSegs(_)
JoinSegs(segs) ==
    IF segs = <<>> THEN <<>>
    ELSE IF Len(segs) = 1 THEN <<segs[1]>>
    ELSE <<segs[1], "/">> \o JoinSegs(Tail(segs))

\* the path of a URL written from parts p: the HIG prefix or nothing, then
\* lead slashes, the segments joined by "/", and trail slashes
PartsPath(p) ==
    (IF p.under THEN hig_path_prefix ELSE <<>>)
      \o Slashes(p.lead) \o JoinSegs(p.segs) \o Slashes(p.trail)

\* the parts of the url arguments: absolute URLs on two hosts and two
\* schemes, scheme-relative URLs, and relative references without a host
UrlParts ==
    { p \in [scheme : {<<>>, <<"http">>, <<"https">>},
             host : {<<>>, <<"developer.apple.com">>, <<"evil.example">>},
             under : BOOLEAN,
             lead : 0..MaxSlashes,
             segs : {<<>>, <<"a">>, <<"a", "b">>, <<"other">>},
             trail : 0..MaxSlashes,
             query : {<<>>, <<"q">>},
             fragment : {<<>>, <<"f">>}] :
        /\ p.scheme # <<>> => p.host # <<>>
        /\ p.segs = <<>> => p.lead = 0
        /\ p.host # <<>> => (PartsPath(p) = <<>> \/ PartsPath(p)[1] = "/")
        /\ p.host = <<>> => ~StartsWith(PartsPath(p), <<"/", "/">>) }

\* the str the caller passes for the parts p
Compose(p) ==
    (IF p.scheme # <<>> THEN p.scheme \o <<":">> ELSE <<>>)
      \o (IF p.host # <<>> THEN <<"/", "/">> \o p.host ELSE <<>>)
      \o PartsPath(p)
      \o (IF p.query # <<>> THEN <<"?">> \o p.query ELSE <<>>)
      \o (IF p.fragment # <<>> THEN <<"#">> \o p.fragment ELSE <<>>)

\* values of is_hig_url's base_url and hig_prefix arguments
BaseUrls == {base_url, <<"https", ":", "/", "/", "evil.example">>}

HigPrefixes == {hig_path_prefix, <<"/", "other">>}

\* the URLs the sets given to save_visited_urls are made of
SavedUrls ==
    { SeedUrl,
      SeedUrl \o <<"/", "a">>,
      SeedUrl \o <<"/", "a", "/", "b">>,
      SeedUrl \o <<"a">>,
      <<"http", ":", "/", "/", "developer.apple.com">> \o hig_path_prefix }

\* the manifest save_visited_urls finds
SavedOver ==
    { Manifest("absent", <<>>),
      Manifest("corrupt", <<>>),
      Manifest("array", <<SeedUrl \o <<"/", "b">>, SeedUrl>>) }

\* the stand-alone calls
Calls ==
    {[fn |-> "normalize_url", parts |-> p, url |-> Compose(p)] :
        p \in UrlParts}
    \cup {[fn |-> "url_to_filepath", parts |-> p, url |-> Compose(p)] :
            p \in UrlParts}
    \cup {[fn |-> "is_hig_url", parts |-> p, url |-> Compose(p),
           base_url |-> b, hig_prefix |-> h] :
            p \in UrlParts, b \in BaseUrls, h \in HigPrefixes}
    \cup {[fn |-> "save_visited_urls", visited |-> S] :
            S \in SUBSET SavedUrls}

\* one stand-alone call, before it is made
InitPure ==
    /\ call \in Calls
    /\ manifest \in IF call.fn = "save_visited_urls" THEN SavedOver
                    ELSE {Manifest("absent", <<>>)}
    /\ ret = <<>>
    /\ pc = "call"
    /\ run = 1
    /\ start_url = SeedUrl
    /\ resume = TRUE
    /\ rate_limit_delay = 1
    /\ visited = {}
    /\ queue = <<>>
    /\ stats = NewStats
    /\ url = <<>>
    /\ max_retries = DefaultMaxRetries
    /\ attempt = 0
    /\ html = None
    /\ files = {}
    /\ loaded = {}
    /\ fetchLog = <<>>
    /\ trace = <<>>
    /\ saves = 0
    /\ sinceFetch = "none"
    /\ failedNow = {}
    /\ failedBefore = {}
    /\ ioError = FALSE
    /\ exitPath = "none"

\* everything but the variables a stand-alone call changes
callFrame == <<run, start_url, resume, rate_limit_delay, visited, queue,
               stats, url, max_retries, attempt, html, files, loaded,
               fetchLog, trace, saves, sinceFetch, failedNow, failedBefore,
               ioError, exitPath, call>>

\* normalize_url(url) returns
NormalizeUrlCall ==
    /\ pc = "call"
    /\ call.fn = "normalize_url"
    /\ ret' = normalize_url(call.url)
    /\ pc' = "returned"
    /\ UNCHANGED <<manifest, callFrame>>

\* is_hig_url(url, base_url, hig_prefix) returns
IsHigUrlCall ==
    /\ pc = "call"
    /\ call.fn = "is_hig_url"
    /\ ret' = is_hig_url(call.url, call.base_url, call.hig_prefix)
    /\ pc' = "returned"
    /\ UNCHANGED <<manifest, callFrame>>

\* url_to_filepath(url, base_dir) returns
UrlToFilepathCall ==
    /\ pc = "call"
    /\ call.fn = "url_to_filepath"
    /\ ret' = url_to_filepath(call.url)
    /\ pc' = "returned"
    /\ UNCHANGED <<manifest, callFrame>>

\* save_visited_urls(output_dir, visited) returns, having written the file
SaveVisitedUrlsCall ==
    /\ pc = "call"
    /\ call.fn = "save_visited_urls"
    /\ manifest' = save_text(call.visited)
    /\ pc' = "saved"
    /\ UNCHANGED <<ret, callFrame>>

\* load_visited_urls(output_dir) returns, called on the file just written
LoadVisitedUrlsCall ==
    /\ pc = "saved"
    /\ ~load_raises(manifest)
    /\ ret' = load_visited_urls(manifest)
    /\ pc' = "returned"
    /\ UNCHANGED <<manifest, callFrame>>

(***************************************************************************)
(* Specifications.                                                         *)
(***************************************************************************)
\* the steps of fetch_with_retry
FetchStep ==
    \/ \E links \in Pages : GotoOk(links)
    \/ \E e \in ErrorMessages : GotoRateLimited(e)
    \/ \E e \in ErrorMessages : GotoTimeout(e)
    \/ \E e \in ErrorMessages : GotoError(e)
    \/ BackoffDone

\* the steps of crawl_hig after its start, and of the calls it makes
CrawlStep ==
    \/ SessionAcquired
    \/ SessionFails
    \/ LoopExit
    \/ SkipVisited
    \/ SkipExists
    \/ CallFetch
    \/ \E e \in ErrorMessages : GotoRateLimited(e)
    \/ \E e \in ErrorMessages : GotoTimeout(e)
    \/ \E e \in ErrorMessages : GotoError(e)
    \/ BackoffDone
    \/ FetchFailed
    \/ \E created \in BOOLEAN : WriteFailed(created)
    \/ PageSaved
    \/ IterationRaises
    \/ RateSleepDone
    \/ Cancelled
    \/ CloseContextOk
    \/ CloseContextRaises
    \/ CloseBrowserRaises
    \/ CloseBrowserAndSave
    \/ \E truncated \in BOOLEAN : CloseBrowserAndSaveFails(truncated)
    \/ \E links \in Pages : GotoOk(links)

\* the steps of a run that every output directory and start URL allow
RunStep ==
    \/ \E r \in BOOLEAN, d \in Delays : CrawlStart(r, d)
    \/ CrawlStep

\* one run of the script
Next ==
    \/ MainReject
    \/ \E d \in Delays : CrawlStartLoadRaises(d)
    \/ RunStep

Spec == Init /\ [][Next]_vars

\* up to MaxRuns runs of the script over the same output directory, each
\* with the default --delay
NextResume ==
    \/ \E r \in BOOLEAN : CrawlStart(r, 1)
    \/ CrawlStep
    \/ NextRun

ResumeSpec == InitResume /\ [][NextResume]_vars

\* one call of fetch_with_retry
FetchSpec == InitFetch /\ [][FetchStep]_vars

\* one call of fetch_with_retry in which every page load and every sleep
\* returns: the event loop resumes the coroutine whenever it can go on
FetchLiveSpec == InitFetch /\ [][FetchStep]_vars /\ WF_vars(FetchStep)

\* the steps of a run in which the session is acquired, every await of the
\* loop returns and nothing but a fetch or a file write fails in an
\* iteration
LiveStep ==
    \/ \E r \in BOOLEAN, d \in Delays : CrawlStart(r, d)
    \/ SessionAcquired
    \/ LoopExit
    \/ SkipVisited
    \/ SkipExists
    \/ CallFetch
    \/ \E links \in Pages : GotoOk(links)
    \/ \E e \in ErrorMessages : GotoRateLimited(e)
    \/ \E e \in ErrorMessages : GotoTimeout(e)
    \/ \E e \in ErrorMessages : GotoError(e)
    \/ BackoffDone
    \/ FetchFailed
    \/ \E created \in BOOLEAN : WriteFailed(created)
    \/ PageSaved
    \/ RateSleepDone
    \/ CloseContextOk
    \/ CloseContextRaises
    \/ CloseBrowserRaises
    \/ CloseBrowserAndSave
    \/ \E truncated \in BOOLEAN : CloseBrowserAndSaveFails(truncated)

\* such a run; the event loop runs the one coroutine whenever it can go on
LiveSpec == Init /\ [][LiveStep]_vars /\ WF_vars(LiveStep)

\* the steps of a first run that may be cancelled and of resumed runs that
\* are not: the session is acquired, every await of the loop returns and
\* only fetches and file writes fail in an iteration
ResumeLiveStep ==
    \/ CrawlStart(TRUE, 1)
    \/ SessionAcquired
    \/ LoopExit
    \/ SkipVisited
    \/ SkipExists
    \/ CallFetch
    \/ \E links \in Pages : GotoOk(links)
    \/ \E e \in ErrorMessages : GotoRateLimited(e)
    \/ \E e \in ErrorMessages : GotoTimeout(e)
    \/ \E e \in ErrorMessages : GotoError(e)
    \/ BackoffDone
    \/ FetchFailed
    \/ \E created \in BOOLEAN : WriteFailed(created)
    \/ PageSaved
    \/ RateSleepDone
    \/ run = 1 /\ Cancelled
    \/ CloseContextOk
    \/ CloseContextRaises
    \/ CloseBrowserRaises
    \/ CloseBrowserAndSave
    \/ \E truncated \in BOOLEAN : CloseBrowserAndSaveFails(truncated)
    \/ NextRun

\* such runs; the event loop runs the one coroutine whenever it can go on,
\* and the script is run again after it ended
ResumeLiveSpec ==
    InitResume /\ [][ResumeLiveStep]_vars /\ WF_vars(ResumeLiveStep)

\* one stand-alone call of a pure function, or a save and the load after it
PureStep ==
    \/ NormalizeUrlCall
    \/ IsHigUrlCall
    \/ UrlToFilepathCall
    \/ SaveVisitedUrlsCall
    \/ LoadVisitedUrlsCall

PureSpec == InitPure /\ [][PureStep]_vars

(***************************************************************************)
(* Properties of fetch_with_retry, over the trace of one call.             *)
(***************************************************************************)
\* the page loads of a trace, in order
Loads(t) == SelectSeq(t, LAMBDA ev : ev.op = "goto")

\* the result of the last page load of a trace that has one
LastResult(t) == Loads(t)[Len(Loads(t))].result

\* every page load of the trace ended as r
AllLoads(t, r) == \A i \in DOMAIN t : t[i].op = "goto" => t[i].result = r

\* C4: when every attempt of a call times out, the call makes at most
\* max_retries page loads; it ends with exactly max_retries loads and the
\* result None, and the last timeout is followed by no sleep: the call has
\* returned as soon as the max_retries-th load timed out.
C4_TimeoutsStopAtMaxRetries ==
    (pc \in {"goto", "backoff", "fetched"} /\ AllLoads(trace, "timeout")) =>
        /\ Len(Loads(trace)) <= max_retries
        /\ (Len(Loads(trace)) = max_retries /\ max_retries > 0) =>
               /\ pc = "fetched"
               /\ html = None
               /\ trace[Len(trace)].op = "goto"
        /\ (pc = "fetched" /\ trace # <<>>) =>
               /\ Len(Loads(trace)) = max_retries
               /\ html = None

\* a call with the default max_retries has returned None after three
\* timeouts and the two sleeps between them
C4_Witness ==
    /\ pc = "fetched"
    /\ max_retries = DefaultMaxRetries
    /\ Len(Loads(trace)) = DefaultMaxRetries
    /\ Len(trace) = 2 * DefaultMaxRetries - 1
    /\ AllLoads(trace, "timeout")
    /\ html = None

\* C5, as the specification states it: a rate-limited attempt never ends
\* the call as a failure, so no call returns None with a rate-limited
\* attempt as its last one.
C5_RateLimitNeverEndsFetch ==
    ~(/\ pc = "fetched"
      /\ html = None
      /\ Loads(trace) # <<>>
      /\ LastResult(trace) = "rate_limit")

\* C5, amended: a rate-limited attempt is always followed by a back-off
\* sleep, never by an immediate return, but it counts toward max_retries:
\* a call makes at most max_retries page loads, and a call whose last load
\* was rate-limited has returned only after max_retries loads, with None.
C5_RateLimitRetriedWithinCap ==
    /\ Len(Loads(trace)) <= max_retries
    /\ \A i \in DOMAIN trace :
           trace[i] = PageLoad("rate_limit") =>
               /\ i < Len(trace)
               /\ trace[i + 1].op = "sleep"
    /\ (pc = "fetched" /\ Loads(trace) # <<>>
          /\ LastResult(trace) = "rate_limit") =>
               /\ Len(Loads(trace)) = max_retries
               /\ html = None

\* a call with the default max_retries has returned None after three
\* rate-limited attempts, each followed by its sleep
C5_Witness ==
    /\ pc = "fetched"
    /\ max_retries = DefaultMaxRetries
    /\ Len(Loads(trace)) = DefaultMaxRetries
    /\ Len(trace) = 2 * DefaultMaxRetries
    /\ AllLoads(trace, "rate_limit")
    /\ html = None

\* C6: an attempt that fails with an error that is neither rate limiting
\* nor a timeout is the last event of the call: no sleep and no further
\* page load follow it, and the call has returned None.
C6_OtherErrorNotRetried ==
    \A i \in DOMAIN trace :
        trace[i] = PageLoad("error") =>
            /\ i = Len(trace)
            /\ pc = "fetched"
            /\ html = None

\* the first attempt of a call that had attempts left failed with another
\* error, and the call has returned
C6_Witness ==
    /\ pc = "fetched"
    /\ max_retries >= 2
    /\ trace = <<PageLoad("error")>>
    /\ html = None

(***************************************************************************)
(* Properties of crawl_hig.                                                *)
(***************************************************************************)
\* C1: in a run started with resume, no URL whose normalized form was
\* loaded from the persisted visited set is passed to fetch_with_retry.
C1_LoadedNeverFetched ==
    resume =>
        \A i \in DOMAIN fetchLog : normalize_url(fetchLog[i]) \notin loaded

\* a resumed run has popped its start URL, whose normalized form (not the
\* URL itself) was loaded from the manifest, and has not fetched it
C1_Witness ==
    /\ resume
    /\ run > 1
    /\ pc = "loop"
    /\ url = start_url
    /\ url \notin loaded
    /\ normalize_url(url) \in loaded
    /\ fetchLog = <<>>

\* C2, as the specification states it: a run that acquired the browser
\* session and left the loop, normally, by an error or by cancellation,
\* has invoked save_visited_urls exactly once when the process ends.
C2_SavedExactlyOnce ==
    (pc = "done" /\ exitPath \in {"normal", "error", "cancel"}) => saves = 1

\* C3, as the specification states it: a run in which a URL failed and
\* whose save met no I/O error leaves a manifest that holds every URL the
\* run marked visited.
C3_ManifestHoldsProcessed ==
    (/\ pc = "done"
     /\ exitPath \in {"normal", "error", "cancel"}
     /\ ~ioError
     /\ failedNow # {}) =>
        /\ manifest.kind = "array"
        /\ visited \subseteq Range(manifest.items)

\* C7, as the specification states it: a failed fetch or save adds 1 to
\* failed, marks the URL visited and pushes nothing; no URL that failed is
\* fetched again in the same run, nor in a later resumed run whose
\* manifest saves met no I/O error.
C7_FailuresAreTerminal ==
    [][/\ (pc = "fetched" /\ pc' = "loop"
             /\ normalize_url(url) \in failedNow' \ failedNow) =>
               /\ stats'.failed = stats.failed + 1
               /\ stats'.successful = stats.successful
               /\ visited' = visited \cup {normalize_url(url)}
               /\ queue' = queue
       /\ (fetchLog' # fetchLog /\ fetchLog' # <<>>) =>
               /\ normalize_url(url') \notin failedNow
               /\ (resume /\ ~ioError) =>
                      normalize_url(url') \notin failedBefore
      ]_vars

\* C8: at the head of the loop with an unvisited URL at the front of the
\* queue, a resumed run whose output file for it exists marks it visited
\* and goes on without calling fetch_with_retry, changing no counter and
\* no file; a run without resume calls fetch_with_retry for it whether or
\* not the file exists.
C8_ExistingFileSkipsFetch ==
    [][(/\ pc = "loop"
        /\ queue # <<>>
        /\ normalize_url(Head(queue)) \notin visited
        /\ url_to_filepath(normalize_url(Head(queue))) \in files) =>
           IF resume
           THEN /\ visited' = visited \cup {normalize_url(Head(queue))}
                /\ fetchLog' = fetchLog
                /\ queue' = Tail(queue)
                /\ pc' = "loop"
                /\ stats' = stats
                /\ files' = files
           ELSE /\ fetchLog' = Append(fetchLog, Head(queue))
                /\ visited' = visited
                /\ pc' = "goto"
      ]_vars

\* a resumed run has skipped a URL that the loaded set did not hold, for
\* its file alone, and marked it visited without a fetch
C8_Witness ==
    /\ resume
    /\ pc = "loop"
    /\ url # <<>>
    /\ normalize_url(url) \in visited \ loaded
    /\ \A i \in DOMAIN fetchLog :
           normalize_url(fetchLog[i]) # normalize_url(url)
    /\ url_to_filepath(normalize_url(url)) \in files
    /\ fetchLog # <<>>
    /\ stats.successful + stats.failed = Len(fetchLog)

\* the scope of the crawl: host developer.apple.com, path under the prefix
InScope(u) ==
    Let(urlparse(u), LAMBDA parsed :
        /\ parsed.netloc = <<"developer.apple.com">>
        /\ StartsWith(parsed.path, hig_path_prefix))

\* the normalized in-scope targets among links that are not in vis, in
\* document order
RECURSIVE Discovered(_, _, _)
Discovered(links, page_url, vis) ==
    IF links = <<>> THEN <<>>
    ELSE (IF /\ InScope(urljoin(page_url, Head(links)))
             /\ normalize_url(urljoin(page_url, Head(links))) \notin vis
          THEN <<normalize_url(urljoin(page_url, Head(links)))>>
          ELSE <<>>)
         \o Discovered(Tail(links), page_url, vis)

\* C9: an iteration that fetches and saves its URL adds the normalized URL
\* to visited, adds 1 to successful, leaves failed as it was, and appends
\* to the queue exactly the normalized in-scope link targets that were not
\* visited, in document order; no link out of scope is ever pushed: every
\* entry of the queue is the start URL or has the host and the prefix.
C9_SuccessfulIteration ==
    [][/\ (/\ pc = "fetched"
           /\ html.ok
           /\ pc' \in {"loop", "rate_sleep"}
           /\ failedNow' = failedNow) =>
               /\ normalize_url(url) \notin visited
               /\ visited' = visited \cup {normalize_url(url)}
               /\ stats'.successful = stats.successful + 1
               /\ stats'.failed = stats.failed
               /\ queue' = queue \o Discovered(html.links, url, visited)
               /\ url_to_filepath(normalize_url(url)) \in files'
       /\ \A i \in DOMAIN queue' :
              queue'[i] = start_url \/ InScope(queue'[i])
      ]_vars

\* the first iteration of a run saved the start page, which linked to
\* page a and to a page out of scope: a alone is queued
C9_Witness ==
    /\ pc \in {"loop", "rate_sleep"}
    /\ url = start_url
    /\ visited = {SeedUrl}
    /\ queue = << SeedUrl \o <<"/", "a">> >>
    /\ stats.successful = 1
    /\ stats.failed = 0
    /\ fetchLog = <<start_url>>
    /\ url_to_filepath(SeedUrl) \in files

\* C10, as the specification states it: with a positive rate-limit delay,
\* every iteration that called fetch_with_retry ends with the delay,
\* whether it succeeded or failed, and the delay has elapsed between any
\* two consecutive calls of fetch_with_retry.
C10_DelayAfterEveryFetch ==
    [][rate_limit_delay > 0 =>
           /\ ~(pc = "fetched" /\ pc' = "loop")
           /\ (fetchLog' # fetchLog /\ fetchLog' # <<>>) =>
                  sinceFetch # "fetch"
      ]_vars

\* C11: the queue is a strict FIFO: a step either leaves it as it is, or
\* starts it as the start URL alone, or removes its first entry, which is
\* the URL the iteration handles, or appends at its end the in-scope,
\* unvisited link targets of the page just saved, in document order.
C11_FrontierIsFifo ==
    [][\/ queue' = queue
       \/ pc = "main" /\ queue' = <<start_url>>
       \/ /\ pc = "loop"
          /\ queue # <<>>
          /\ queue' = Tail(queue)
          /\ url' = Head(queue)
       \/ /\ pc = "fetched"
          /\ html.ok
          /\ queue' = queue \o Discovered(html.links, url, visited)
      ]_vars

\* the start page linked to b and then to a: b was popped and fetched
\* first, a is still queued behind the links of b's page
C11_Witness ==
    /\ Len(fetchLog) = 2
    /\ fetchLog[1] = start_url
    /\ fetchLog[2] = SeedUrl \o <<"/", "b">>
    /\ url = SeedUrl \o <<"/", "b">>
    /\ Len(queue) >= 2
    /\ queue[1] = SeedUrl \o <<"/", "a">>
    /\ pc \in {"loop", "rate_sleep"}

\* C12: once crawl_hig has initialised it, from the manifest when resume is
\* set and empty otherwise, the visited set only grows: every step of the
\* run leaves it equal to or a superset of what it was.
C12_VisitedGrows ==
    [][IF pc = "main"
       THEN pc' = "launch" =>
                visited' = IF resume' /\ manifest.kind = "array"
                           THEN Range(manifest.items)
                           ELSE {}
       ELSE visited \subseteq visited'
      ]_vars

\* a resumed run that loaded a non-empty set has added two URLs to it
C12_Witness ==
    /\ resume
    /\ loaded # {}
    /\ loaded \subseteq visited
    /\ Cardinality(visited) >= Cardinality(loaded) + 2

\* C13, as the specification states it: a run that has entered the loop,
\* in which every await returns and only fetches and file writes fail,
\* ends with an empty queue and the manifest save executed.
C13_LoopEndsFlushed ==
    (pc = "loop") ~> (pc = "done" /\ queue = <<>> /\ saves = 1)

(***************************************************************************)
(* Properties of the pure functions, over the stand-alone calls.           *)
(***************************************************************************)
\* C14, as the specification states it: normalizing what normalize_url
\* returned gives it back unchanged, for every argument, absolute or
\* relative.
C14_NormalizeIdempotent ==
    (pc = "returned" /\ call.fn = "normalize_url") =>
        normalize_url(ret) = ret

\* the path normalize_url is to keep for the parts p: the path without its
\* trailing slashes, unless the path is "/" alone
KeptPath(p) ==
    IF p.segs # <<>>
    THEN (IF p.under THEN hig_path_prefix ELSE <<>>)
           \o Slashes(p.lead) \o JoinSegs(p.segs)
    ELSE IF p.under THEN hig_path_prefix
    ELSE IF p.trail = 1 THEN <<"/">>
    ELSE <<>>

\* C15: for an absolute http or https URL, normalize_url returns the
\* scheme, "://", the host and the path as the caller wrote them, without
\* the query and the fragment and without the slashes that end the path,
\* except that a path that is exactly "/" is kept; so
\* "http://h/a/b?q#f" gives "http://h/a/b" and "http://h/" gives itself.
C15_NormalizeKeepsSchemeHostPath ==
    (pc = "returned" /\ call.fn = "normalize_url"
       /\ call.parts.scheme # <<>>) =>
        /\ ret = call.parts.scheme \o <<":", "/", "/">> \o call.parts.host
                   \o KeptPath(call.parts)
        /\ \A i \in DOMAIN ret : ret[i] \notin {"?", "#"}
        /\ call.url = <<"http", ":", "/", "/", "evil.example", "/">> =>
               ret = call.url

\* normalize_url("http://evil.example/a/b/?q#f") has returned
\* "http://evil.example/a/b"
C15_Witness ==
    /\ pc = "returned"
    /\ call.fn = "normalize_url"
    /\ call.url = <<"http", ":", "/", "/", "evil.example", "/", "a", "/",
                    "b", "/", "?", "q", "#", "f">>
    /\ ret = <<"http", ":", "/", "/", "evil.example", "/", "a", "/", "b">>

\* C16, as the specification states it: for an absolute URL, is_hig_url
\* returns true exactly when the host of the URL is the host of the
\* base_url argument and the path starts with the hig_prefix argument,
\* whatever the query and the fragment.
C16_ScopeIsHostAndPrefix ==
    (pc = "returned" /\ call.fn = "is_hig_url"
       /\ call.parts.scheme # <<>>) =>
        ret = (/\ call.parts.host = urlparse(call.base_url).netloc
               /\ StartsWith(PartsPath(call.parts), call.hig_prefix))

\* C17: for a URL whose path is the HIG prefix, alone or followed by
\* slashes, url_to_filepath returns <out>/index.html; for a path that is
\* the prefix, one or more slashes and segments joined by "/", it returns
\* <out>/<segments>/index.html, whatever slashes end the path and whatever
\* the scheme, host, query and fragment are.
C17_PathMapping ==
    (pc = "returned" /\ call.fn = "url_to_filepath" /\ call.parts.under
       /\ (call.parts.segs = <<>> \/ call.parts.lead >= 1)) =>
        ret = [i \in 1..Len(call.parts.segs) |-> <<call.parts.segs[i]>>]
                \o << <<"index.html">> >>

\* url_to_filepath of <prefix>//a/b/ with a query and a fragment has
\* returned <out>/a/b/index.html
C17_Witness ==
    /\ pc = "returned"
    /\ call.fn = "url_to_filepath"
    /\ call.url = SeedUrl \o <<"/", "/", "a", "/", "b", "/", "?", "q",
                               "#", "f">>
    /\ ret = << <<"a">>, <<"b">>, <<"index.html">> >>

\* C18, as the specification states it: whatever the manifest file holds,
\* load_visited_urls returns and the run goes on; what it returns for a
\* file that is absent, unreadable, not JSON or not a JSON array is the
\* empty set.
C18_LoadNeverFatal ==
    /\ exitPath # "load_error"
    /\ (resume /\ pc \notin {"main", "exit"} /\ saves = 0
          /\ manifest.kind # "array") => loaded = {}

C20_TotalPagesIsVisitedPlusQueue ==
    [][/\ (\/ pc = "loop" /\ pc' = "loop" /\ queue' # queue
           \/ pc = "fetched" /\ pc' \in {"loop", "rate_sleep"}) =>
               stats'.total_pages = Cardinality(visited') + Len(queue')
       /\ (pc = "loop" /\ pc' = "close_context") =>
               /\ stats.total_pages = Cardinality(visited)
               /\ stats.total_pages >= stats.successful + stats.failed
      ]_vars

AttemptOf(t, i) == Len(Loads(Upto(t, i))) - 1

\* the sleeps of a trace that follow a page load that ended as r
SleepsAfter(t, r) ==
    {i \in DOMAIN t : i > 1 /\ t[i].op = "sleep" /\ t[i - 1] = PageLoad(r)}

\* C22: in one call of fetch_with_retry, with the attempts numbered from
\* 0, attempt k that timed out and is not the last attempt allowed is
\* followed by a sleep of exactly 2^k seconds, and attempt k that was
\* rate-limited by a sleep of exactly 10 * 2^k seconds; the next page load,
\* if there is one, comes after that sleep, and the sleeps after attempts
\* of the same class grow strictly within the call.
C22_BackoffSchedule ==
    /\ \A i \in DOMAIN trace :
           /\ (trace[i] = PageLoad("timeout")
                 /\ AttemptOf(trace, i) < max_retries - 1) =>
                  /\ i < Len(trace)
                  /\ trace[i + 1] = Sleep(2 ^ AttemptOf(trace, i))
           /\ trace[i] = PageLoad("rate_limit") =>
                  /\ i < Len(trace)
                  /\ trace[i + 1] = Sleep(10 * 2 ^ AttemptOf(trace, i))
           /\ (trace[i].op = "goto" /\ i > 1) => trace[i - 1].op = "sleep"
    /\ \A r \in {"timeout", "rate_limit"} :
           \A i, j \in SleepsAfter(trace, r) :
               i < j => trace[i].delay < trace[j].delay

\* a call with max_retries = 4 has returned after a timeout, a rate limit,
\* a timeout and a rate limit, with sleeps of 1, 20, 4 and 80 seconds
C22_Witness ==
    /\ pc = "fetched"
    /\ max_retries = 4
    /\ trace = <<PageLoad("timeout"), Sleep(1),
                 PageLoad("rate_limit"), Sleep(20),
                 PageLoad("timeout"), Sleep(4),
                 PageLoad("rate_limit"), Sleep(80)>>

\* the normalized forms of the URLs fetch_with_retry was called for
Fetched == {normalize_url(fetchLog[i]) : i \in DOMAIN fetchLog}

\* C23: within one run fetch_with_retry is called at most once for each
\* normalized URL, however often the URL was pushed before it was popped:
\* the calls of a run are for pairwise different normalized URLs, and a
\* pop of a URL that was fetched before calls nothing, writes nothing,
\* counts nothing and goes back to the head of the loop.
C23_FetchedAtMostOnce ==
    [][/\ \A i, j \in DOMAIN fetchLog' :
              i < j => normalize_url(fetchLog'[i])
                           # normalize_url(fetchLog'[j])
       /\ (/\ pc = "loop"
           /\ queue # <<>>
           /\ normalize_url(Head(queue)) \in Fetched) =>
              /\ queue' = Tail(queue)
              /\ fetchLog' = fetchLog
              /\ pc' = "loop"
              /\ files' = files
              /\ stats' = stats
              /\ visited' = visited
      ]_vars

\* the start page linked to itself and twice to a: the queue held a twice,
\* a was fetched at its first pop and skipped at its second, after which
\* the queue is empty
C23_Witness ==
    /\ pc = "loop"
    /\ queue = <<>>
    /\ url = SeedUrl \o <<"/", "a">>
    /\ fetchLog = <<start_url, SeedUrl \o <<"/", "a">> >>
    /\ visited = {SeedUrl, SeedUrl \o <<"/", "a">>}
    /\ stats.successful = 2
    /\ stats.total_pages = Cardinality(visited) + 1

\* C24: whatever the outcomes of the attempts are, in any order, one call
\* of fetch_with_retry makes at most max_retries page loads and at most
\* max_retries sleeps, and when every page load and sleep returns the call
\* returns.
C24_BoundedAttempts ==
    /\ [](/\ Len(Loads(trace)) <= max_retries
          /\ Len(trace) - Len(Loads(trace)) <= max_retries)
    /\ <>[](pc = "fetched")

\* a call with the default max_retries has returned None after a
\* rate-limited, a timed-out and a rate-limited attempt
C24_Witness ==
    /\ pc = "fetched"
    /\ max_retries = DefaultMaxRetries
    /\ html = None
    /\ trace = <<PageLoad("rate_limit"), Sleep(10),
                 PageLoad("timeout"), Sleep(2),
                 PageLoad("rate_limit"), Sleep(40)>>

\* the URLs of the site that a page of the model can link to
SiteUrls == {SeedUrl, SeedUrl \o <<"/", "a">>, SeedUrl \o <<"/", "b">>}

\* the first run was cancelled while u waited in the queue, unvisited, and
\* its finally block has saved the manifest
CancelledWith(u) ==
    /\ run = 1
    /\ pc = "done"
    /\ exitPath = "cancel"
    /\ saves = 1
    /\ ~ioError
    /\ visited # {}
    /\ u \notin visited
    /\ \E i \in DOMAIN queue : queue[i] = u

\* C25, as the specification states it: when the first run is cancelled
\* after it processed some URLs and while others waited in the queue, and
\* its manifest was saved, the runs that follow with resume, the same
\* start URL and the same output directory eventually mark visited every
\* URL that waited in the queue of the first.
C25_ResumedRunCompletes ==
    \A u \in SiteUrls : CancelledWith(u) ~> (run > 1 /\ u \in visited)

\* 1 when the iteration that starts in this state skips its URL because
\* resume is set and its file exists, 0 otherwise
SkipsForFile ==
    IF /\ pc = "loop"
       /\ queue # <<>>
       /\ normalize_url(Head(queue)) \notin visited
       /\ resume
       /\ url_to_filepath(normalize_url(Head(queue))) \in files
    THEN 1 ELSE 0

\* C26: the counters start at 0, never decrease and never both grow in one
\* step; every step of the loop adds as many URLs to the visited set as it
\* adds to successful + failed, plus one when it skips a URL for its file,
\* and a step that counts a URL adds that URL, which was not visited; so
\* successful + failed + skipped is the number of URLs the run has added
\* to what it loaded, and successful + failed is the number of them that
\* were fetched.
C26_CountersMatchVisited ==
    [][IF pc = "main"
       THEN /\ stats' = NewStats
            /\ pc' = "launch" => visited' = loaded'
       ELSE /\ stats'.successful >= stats.successful
            /\ stats'.failed >= stats.failed
            /\ (stats'.successful - stats.successful)
                 + (stats'.failed - stats.failed) <= 1
            /\ Cardinality(visited') - Cardinality(visited) =
                   (stats'.successful - stats.successful)
                     + (stats'.failed - stats.failed) + SkipsForFile
            /\ stats'.successful + stats'.failed
                 # stats.successful + stats.failed =>
                   /\ normalize_url(url) \notin visited
                   /\ visited' = visited \cup {normalize_url(url)}
            /\ loaded' \subseteq visited'
            /\ stats'.successful + stats'.failed =
                   Cardinality((visited' \ loaded') \cap Fetched')
      ]_vars

\* a resumed run that loaded a manifest has added two URLs to the set it
\* loaded: the start URL, which it fetched and saved, and one it skipped
\* for its file
C26_Witness ==
    /\ resume
    /\ pc = "loop"
    /\ loaded # {}
    /\ stats.successful = 1
    /\ stats.failed = 0
    /\ loaded \subseteq visited
    /\ Cardinality(visited \ loaded) = 2
    /\ Cardinality((visited \ loaded) \ Fetched) = 1

\* a key of the crawl: a URL the scope filter accepts, in normalized form
IsKey(u) == is_hig_url(u, base_url, hig_path_prefix) /\ normalize_url(u) = u

\* C27, as the specification states it: two different normalized in-scope
\* URLs never map to the same output file, so the file url_to_filepath
\* returned for a key is the file of no other key.
C27_PathsInjective ==
    (pc = "returned" /\ call.fn = "url_to_filepath" /\ IsKey(call.url)) =>
        \A p \in UrlParts :
            (IsKey(Compose(p)) /\ url_to_filepath(Compose(p)) = ret) =>
                Compose(p) = call.url

\* the scope filter as the crawl applies it
InFilter(u) == is_hig_url(u, base_url, hig_path_prefix)

\* u is the start URL, which the scope filter accepted, or a URL on the
\* host and under the prefix, in normalized form
SeedOrScoped(u) ==
    /\ InFilter(u)
    /\ u # start_url => (InScope(u) /\ normalize_url(u) = u)

\* C28: in a run that main started, so that the start URL passed the scope
\* filter, every entry of the queue passes the filter and every entry but
\* the start URL has the host and the prefix and is in normalized form;
\* fetch_with_retry is called for such URLs only, and a page file is
\* written only by the iteration of a fetched URL with the host and the
\* prefix, as the file of that URL.
C28_ScopeSafety ==
    [][/\ \A i \in DOMAIN queue' : SeedOrScoped(queue'[i])
       /\ \A i \in DOMAIN fetchLog' : SeedOrScoped(fetchLog'[i])
       /\ files' # files =>
              /\ pc = "fetched"
              /\ html.ok
              /\ fetchLog # <<>>
              /\ url = fetchLog[Len(fetchLog)]
              /\ InScope(url)
              /\ files' = files \cup {url_to_filepath(normalize_url(url))}
      ]_vars

\* a run whose start URL is not in normalized form has saved the start
\* page and the page of a link, and a link still waits in the queue
C28_Witness ==
    /\ pc = "loop"
    /\ start_url # normalize_url(start_url)
    /\ Len(fetchLog) = 2
    /\ fetchLog[1] = start_url
    /\ url = fetchLog[2]
    /\ url_to_filepath(url) \in files
    /\ stats.successful = 2
    /\ queue # <<>>

\* C29, as the specification states it: when a run that entered the loop
\* has ended, by any exit path and without an I/O error of the save, the
\* manifest is the one its teardown wrote: with resume it holds every URL
\* the run loaded from the manifest it found, and without resume, when
\* nothing was loaded, it holds exactly the URLs the run visited.
C29_ManifestGrowsAcrossRuns ==
    (pc = "done" /\ exitPath \in {"normal", "error", "cancel"} /\ ~ioError) =>
        /\ manifest.kind = "array"
        /\ IF resume
           THEN loaded \subseteq Range(manifest.items)
           ELSE loaded = {} /\ Range(manifest.items) = visited

\* the iteration that starts in this state skips its URL: the URL is
\* visited, or resume is set and its file exists
SkipsUrl ==
    /\ pc = "loop"
    /\ queue # <<>>
    /\ \/ normalize_url(Head(queue)) \in visited
       \/ resume /\ url_to_filepath(normalize_url(Head(queue))) \in files

\* C30: an iteration that skips its URL only pops it: it calls no fetch,
\* writes no file, pushes nothing and changes no counter; an iteration
\* whose fetch returned None writes no file and pushes nothing; and the
\* queue gains entries only in the iteration of a URL that was fetched in
\* this run, whose page was returned and whose file is written.
C30_FrameOfSkipAndFailure ==
    [][/\ SkipsUrl =>
              /\ queue' = Tail(queue)
              /\ pc' = "loop"
              /\ fetchLog' = fetchLog
              /\ trace' = trace
              /\ files' = files
              /\ stats' = stats
       /\ (pc = "fetched" /\ ~html.ok) =>
              /\ files' = files
              /\ queue' = queue
       /\ (pc # "main" /\ queue' # queue
             /\ (queue = <<>> \/ queue' # Tail(queue))) =>
              /\ pc = "fetched"
              /\ html.ok
              /\ fetchLog # <<>>
              /\ url = fetchLog[Len(fetchLog)]
              /\ url_to_filepath(normalize_url(url)) \in files'
              /\ stats'.successful = stats.successful + 1
              /\ \E n \in 1..Len(html.links) :
                     /\ Len(queue') <= Len(queue) + n
                     /\ Upto(queue', Len(queue)) = queue
      ]_vars

\* the start page was saved and queued itself and a twice; the start URL
\* was skipped as visited, the fetch of a failed, the second a was
\* skipped: the only file is the start page's and nothing else was queued
C30_Witness ==
    /\ pc = "loop"
    /\ queue = <<>>
    /\ url = SeedUrl \o <<"/", "a">>
    /\ fetchLog = <<start_url, SeedUrl \o <<"/", "a">> >>
    /\ stats.successful = 1
    /\ stats.failed = 1
    /\ stats.total_pages = 4
    /\ visited = {SeedUrl, SeedUrl \o <<"/", "a">>}
    /\ files = {url_to_filepath(SeedUrl)}

====
